---- MODULE Spec2Model ----
(***************************************************************************)
(* Model of the process supervisor of go-appservice-example (package       *)
(* daemon): Daemon.Start, Daemon.Stop, the background task                 *)
(* superviseProcess with its deferred handleProcessExit / wg.Done, and the *)
(* bounded wait waitForProcessTermination.                                 *)
(*                                                                         *)
(* The repository holds two snapshots of daemon.go:                        *)
(*   "pkg"  = src/pkg/daemon/daemon.go                                     *)
(*   "snap" = src/unnamed/part_000 (lines 1-128)                           *)
(* They differ in three places (the Signal error test in Stop, the order   *)
(* of the two deferred calls in superviseProcess, the Kill error in        *)
(* waitForProcessTermination).  The variable `variant` is fixed by Init    *)
(* and selects the snapshot, so that every property is checked on both.    *)
(*                                                                         *)
(* Time is discrete.  One tick is one unit of the grace period.  Steps of  *)
(* the program's own goroutines take no time: a tick is taken only when no *)
(* goroutine of the supervisor is runnable.  What takes time is what the   *)
(* program waits for: the child process, the grace-period timer, and the   *)
(* service manager's Stop called by handleProcessExit.                     *)
(***************************************************************************)
EXTENDS Integers, Sequences, FiniteSets, TLC

\* Largest configured grace period (cfg.ExitTimeout) tried, in ticks.
MaxGrace == 2

\* defaultExitTimeout (10 * time.Second), in ticks of one second.
defaultExitTimeout == 10

VARIABLES
    variant,        \* which snapshot of daemon.go runs: "pkg" | "snap"
    ExitTimeout,    \* d.ExitTimeout, the grace period in ticks
    Executable,     \* d.Executable: "" | "path" | "self"
    interactive,    \* what kardianos.Interactive() answers
    cmd,            \* d.cmd: "nil" | "set"
    cmdProcess,     \* d.cmd.Process: "nil" | "set"
    wg,             \* d.wg counter
    retval,         \* d.retval (zero value is nil)
    child,          \* the OS child: "none" | "running" | "zombie" | "reaped"
    childResult,    \* exit result of the child as cmd.Wait reports it
    exitCause,      \* why the child exited: "none" | "natural" | "sigterm" | "killed"
    exitAt,         \* ticks since the termination signal when the child exited (-1: before it / not yet)
    startRet,       \* what Start returned: "none" | "nil" | "SetupError"
    stopPc,         \* position of the Stop call
    stopRet,        \* what Stop returned
    stopPath,       \* which case of the select Stop took: "none" | "exit" | "timer"
    bgPc,           \* position of the goroutine superviseProcess
    deferIdx,       \* next statement of the deferred function of superviseProcess
    runErr,         \* the value cmd.Run() returned, before it is stored in d.retval
    exitCh,         \* channel exit of waitForProcessTermination: "none" | "open" | "closed"
    timerLeft,      \* ticks left on time.After(d.ExitTimeout); -1: no timer
    timers,         \* number of timers created
    sinceSignal,    \* ticks since Signal(SIGTERM) returned nil; -1: not sent
    sigCalls,       \* calls of d.cmd.Process.Signal
    sigDelivered,   \* SIGTERM reached a running child
    kills,          \* calls of d.cmd.Process.Kill
    killErr,        \* what the Kill call returned: "none" | "nil" | "ErrProcessDone"
    sigErr,         \* what the Signal call returned: "none" | "nil" | "EPERM" | "ErrProcessDone"
    svcStops,       \* calls of s.Stop() by handleProcessExit
    selfSignals,    \* SIGTERM sent to the own process by handleProcessExit
    faulted,        \* a nil pointer dereference panicked the caller
    retvalWrites,   \* assignments to d.retval made so far
    retvalReads,    \* reads of d.retval made by Stop so far
    second,         \* a second call of Start on the same Daemon, a record:
                    \*   startRet     what the second Start returned: "none" | "nil"
                    \*   replaced     d.cmd was overwritten by the second Start
                    \*   bgPc         position of the second goroutine superviseProcess
                    \*   deferIdx     next statement of its deferred function
                    \*   child        the OS child it created
                    \*   childResult  exit result of that child
                    \*   runErr       the value its cmd.Run() returned
    co              \* one invocation of the run command (package cmd), a record:
                    \*   variant      which snapshot of run.go runs: "run1" | "run2"
                    \*   pc           position of RunE / runWithSignals / handleShutdown
                    \*   ret          the error returned
                    \*   state        Running, CancelRequested, CompletedNaturally,
                    \*                CompletedAfterCancel or TimedOut
                    \*   unitPc       position of the goroutine that runs f
                    \*   unitResult   what f returned
                    \*   runErr       the variable runErr (err in run1)
                    \*   argRunErr    the parameter runErr of handleShutdown
                    \*   done         the channel done is closed
                    \*   wg           the WaitGroup counter
                    \*   sigChan      signals buffered in sigChan
                    \*   notify       signal.Notify is in effect
                    \*   triggers     termination signals the process received
                    \*   consumed     receives from sigChan
                    \*   cancels      calls of cancel()
                    \*   shutdownDone the channel shutdownDone: "none" | "open" | "closed"
                    \*   timerLeft    ticks left on time.After(shutdownTimeout); -1: no timer
                    \*   timers       timers created
                    \*   sinceCancel  ticks since the first cancel(); -1: not cancelled
                    \*   doneAtConsume done was closed when the trigger was received
                    \*   reads        reads of runErr (err) by the run command
                    \*   earlyReads   those made while done was not closed

vars == << variant, ExitTimeout, Executable, interactive, cmd, cmdProcess, wg,
           retval, child, childResult, exitCause, exitAt, startRet, stopPc,
           stopRet, stopPath, bgPc, deferIdx, runErr, exitCh, timerLeft,
           timers, sinceSignal, sigCalls, sigDelivered, kills, killErr,
           sigErr, svcStops, selfSignals, faulted, retvalWrites,
           retvalReads, second, co >>

Variants == {"pkg", "snap"}

\* NewDaemon: a zero ExitTimeout becomes defaultExitTimeout.
NewDaemon(cfgTimeout) == IF cfgTimeout = 0 THEN defaultExitTimeout ELSE cfgTimeout

\* The run command before it is invoked.
CoIdle(v) ==
    [ variant |-> v, pc |-> "idle", ret |-> "none", state |-> "Running",
      unitPc |-> "none", unitResult |-> "none", runErr |-> "nil",
      argRunErr |-> "nil", done |-> FALSE, wg |-> 0, sigChan |-> 0,
      notify |-> FALSE, triggers |-> 0, consumed |-> 0, cancels |-> 0,
      shutdownDone |-> "none", timerLeft |-> -1, timers |-> 0,
      sinceCancel |-> -1, doneAtConsume |-> FALSE, reads |-> 0,
      earlyReads |-> 0 ]

\* No second call of Start has been made.
SecondIdle ==
    [ startRet |-> "none", replaced |-> FALSE, bgPc |-> "idle", deferIdx |-> 1,
      child |-> "none", childResult |-> "none", runErr |-> "none" ]

\* The supervisor after NewDaemon (the run command is not invoked).
Init ==
    /\ co = CoIdle("run2")
    /\ second = SecondIdle
    /\ variant \in Variants
    /\ \E cfgTimeout \in 0..MaxGrace : ExitTimeout = NewDaemon(cfgTimeout)
    /\ Executable \in {"", "path"}
    /\ interactive \in BOOLEAN
    /\ cmd = "nil"
    /\ cmdProcess = "nil"
    /\ wg = 0
    /\ retval = "nil"
    /\ child = "none"
    /\ childResult = "none"
    /\ exitCause = "none"
    /\ exitAt = -1
    /\ startRet = "none"
    /\ stopPc = "idle"
    /\ stopRet = "none"
    /\ stopPath = "none"
    /\ bgPc = "idle"
    /\ deferIdx = 1
    /\ runErr = "none"
    /\ exitCh = "none"
    /\ timerLeft = -1
    /\ timers = 0
    /\ sinceSignal = -1
    /\ sigCalls = 0
    /\ sigDelivered = FALSE
    /\ kills = 0
    /\ killErr = "none"
    /\ sigErr = "none"
    /\ svcStops = 0
    /\ selfSignals = 0
    /\ faulted = FALSE
    /\ retvalWrites = 0
    /\ retvalReads = 0

cfgV    == << variant, ExitTimeout, interactive >>
childV  == << child, childResult, exitCause, exitAt >>
waitV   == << exitCh, timerLeft, timers >>
bridgeV == << svcStops, selfSignals >>
ghostV  == << retvalWrites, retvalReads >>

-----------------------------------------------------------------------------
(* Start *)

\* Start: resolve the executable, build d.cmd, wg.Add(1), go superviseProcess.
\* `resolved` is the outcome of os.Executable(), consulted only for an empty path.
Start ==
    /\ startRet = "none"
    /\ stopPc = "idle"
    /\ \E resolved \in BOOLEAN :
          IF Executable = "" /\ ~resolved
          THEN /\ startRet' = "SetupError"
               /\ UNCHANGED << Executable, cmd, wg, bgPc >>
          ELSE /\ Executable' = (IF Executable = "" THEN "self" ELSE Executable)
               /\ cmd' = "set"
               /\ wg' = wg + 1
               /\ bgPc' = "run"
               /\ startRet' = "nil"
    /\ UNCHANGED << co, second, ghostV, cfgV, childV, waitV, bridgeV, cmdProcess, retval, stopPc,
                    stopRet, stopPath, faulted, deferIdx, runErr, sinceSignal,
                    sigCalls, sigDelivered, kills, killErr,
                    sigErr >>

-----------------------------------------------------------------------------
(* The background task: superviseProcess *)

\* Exit results cmd.Wait can report for a child that exited by itself:
\* nil for status 0, an *exec.ExitError otherwise.
ExitResults == {"nil", "ExitError"}

\* d.cmd.Run(), first half (exec.Cmd.Start): the OS process is created and
\* d.cmd.Process is set, or creation fails and Run returns the error at once.
BgStart ==
    /\ bgPc = "run"
    /\ \E created \in BOOLEAN :
          IF created
          THEN /\ cmdProcess' = "set"
               /\ child' = "running"
               /\ bgPc' = "wait"
               /\ UNCHANGED runErr
          ELSE /\ runErr' = "StartError"
               /\ bgPc' = "assign"
               /\ UNCHANGED << cmdProcess, child >>
    /\ UNCHANGED << co, second, ghostV, cfgV, waitV, bridgeV, Executable, cmd, wg, retval,
                    childResult, exitCause, exitAt, startRet, stopPc, stopRet,
                    stopPath, faulted, deferIdx, sinceSignal, sigCalls,
                    sigDelivered, kills, killErr,
                    sigErr >>

\* The child process exits by itself: on its own, or in reaction to a
\* SIGTERM that reached it.
ChildExit ==
    /\ child = "running"
    /\ \E r \in ExitResults, c \in {"natural", "sigterm"} :
          /\ c = "sigterm" => sigDelivered
          /\ childResult' = r
          /\ exitCause' = c
    /\ child' = "zombie"
    /\ exitAt' = sinceSignal
    /\ UNCHANGED << co, second, ghostV, cfgV, waitV, bridgeV, Executable, cmd, cmdProcess, wg,
                    retval, startRet, stopPc, stopRet, stopPath, faulted, bgPc,
                    deferIdx, runErr, sinceSignal, sigCalls, sigDelivered,
                    kills, killErr,
                    sigErr >>

\* d.cmd.Run(), second half (exec.Cmd.Wait): returns once the child has
\* exited, reaping it; from here on the os.Process is done.
BgWait ==
    /\ bgPc = "wait"
    /\ child = "zombie"
    /\ child' = "reaped"
    /\ runErr' = childResult
    /\ bgPc' = "assign"
    /\ UNCHANGED << co, second, ghostV, cfgV, waitV, bridgeV, Executable, cmd, cmdProcess, wg,
                    retval, childResult, exitCause, exitAt, startRet, stopPc,
                    stopRet, stopPath, faulted, deferIdx, sinceSignal,
                    sigCalls, sigDelivered, kills, killErr,
                    sigErr >>

\* d.retval = d.cmd.Run(): the assignment; the deferred function runs next.
BgAssign ==
    /\ bgPc = "assign"
    /\ retval' = runErr
    /\ bgPc' = "defer"
    /\ retvalWrites' = retvalWrites + 1
    /\ UNCHANGED retvalReads
    /\ UNCHANGED << co, second, cfgV, childV, waitV, bridgeV, Executable, cmd, cmdProcess,
                    wg, startRet, stopPc, stopRet, stopPath, faulted, deferIdx,
                    runErr, sinceSignal, sigCalls, sigDelivered, kills,
                    killErr,
                    sigErr >>

\* The deferred function of superviseProcess, statement by statement.
DeferredPkg  == << "handleProcessExit", "Done" >>
DeferredSnap == << "Done", "handleProcessExit" >>
Deferred == IF variant = "pkg" THEN DeferredPkg ELSE DeferredSnap

\* Position of the background task after statement deferIdx has completed.
AfterDeferred(i) == IF i < Len(Deferred) THEN "defer" ELSE "finished"

\* Mutant of SvcStopCalls: the service branch does nothing.
SvcStopCallsNone(inter) == 0

\* Mutant of SelfSignalCalls: the own process is signalled in both modes.
SelfSignalCallsAlways(inter) == 1

\* Mutant of SvcStopCalls: the service manager is asked twice.
SvcStopCallsTwice(inter) == IF ~inter THEN 2 ELSE 0

\* Mutant of SelfSignalCalls: the interactive branch does nothing.
SelfSignalCallsNone(inter) == 0

\* handleProcessExit: how many times each branch acts for one call.
SvcStopCalls(inter)    == IF ~inter THEN 1 ELSE 0
SelfSignalCalls(inter) == IF inter THEN 1 ELSE 0

\* handleProcessExit is entered.  In service mode it calls s.Stop() and
\* stays in that call until the service manager answers; in interactive
\* mode it signals its own process and returns.
BgHandleProcessExit ==
    /\ bgPc = "defer"
    /\ Deferred[deferIdx] = "handleProcessExit"
    /\ svcStops' = svcStops + SvcStopCalls(interactive)
    /\ selfSignals' = selfSignals + SelfSignalCalls(interactive)
    /\ IF ~interactive
       THEN /\ bgPc' = "bridge"
            /\ UNCHANGED deferIdx
       ELSE /\ bgPc' = AfterDeferred(deferIdx)
            /\ deferIdx' = deferIdx + 1
    /\ UNCHANGED << co, second, ghostV, cfgV, childV, waitV, Executable, cmd, cmdProcess, wg,
                    retval, startRet, stopPc, stopRet, stopPath, faulted,
                    runErr, sinceSignal, sigCalls, sigDelivered, kills,
                    killErr,
                    sigErr >>

\* s.Stop() returns to handleProcessExit.
BridgeReturn ==
    /\ bgPc = "bridge"
    /\ bgPc' = AfterDeferred(deferIdx)
    /\ deferIdx' = deferIdx + 1
    /\ UNCHANGED << co, second, ghostV, cfgV, childV, waitV, bridgeV, Executable, cmd, cmdProcess,
                    wg, retval, startRet, stopPc, stopRet, stopPath, faulted,
                    runErr, sinceSignal, sigCalls, sigDelivered, kills,
                    killErr,
                    sigErr >>

\* d.wg.Done()
BgDone ==
    /\ bgPc = "defer"
    /\ Deferred[deferIdx] = "Done"
    /\ wg' = wg - 1
    /\ bgPc' = AfterDeferred(deferIdx)
    /\ deferIdx' = deferIdx + 1
    /\ UNCHANGED << co, second, ghostV, cfgV, childV, waitV, bridgeV, Executable, cmd, cmdProcess,
                    retval, startRet, stopPc, stopRet, stopPath, faulted,
                    runErr, sinceSignal, sigCalls, sigDelivered, kills,
                    killErr,
                    sigErr >>

-----------------------------------------------------------------------------
(* Stop and waitForProcessTermination *)

\* What d.cmd.Process.Signal(syscall.SIGTERM) can return: os.ErrProcessDone
\* once Wait has reaped the child; otherwise nil, or the error of the
\* system call (EPERM).
SignalOutcomes ==
    IF child = "reaped" THEN {"ErrProcessDone"} ELSE {"nil", "EPERM"}

\* Mutant of SurfacesSignalErrPkg: only "already done" is treated as an error.
SurfacesSignalErrPkgInverted(err) == err = "ErrProcessDone"

\* The test Stop applies to the error of Signal before returning it wrapped.
SurfacesSignalErrPkg(err)  == err # "nil"
SurfacesSignalErrSnap(err) == err # "nil" /\ err # "ErrProcessDone"

\* What d.cmd.Process.Kill() returns: os.ErrProcessDone once Wait has reaped
\* the child, nil otherwise.
KillOutcome == IF child = "reaped" THEN "ErrProcessDone" ELSE "nil"

\* Whether waitForProcessTermination returns the error of Kill.
SurfacesKillErrPkg(err)  == err # "nil"
SurfacesKillErrSnap(err) == FALSE

\* Mutant of TimerDuration: the configured grace period is not used.
TimerDurationDefault == defaultExitTimeout

\* Mutant of TimerDuration: the timer is one tick short of the grace period.
TimerDurationShort == ExitTimeout - 1

\* The duration handed to time.After.
TimerDuration == ExitTimeout

\* The channel of time.After is ready.
TimerExpired == timerLeft = 0

\* What the exit case of the select returns.
ExitCaseResult == retval

\* Stop is called; its first statement reads d.cmd.Process.  With d.cmd nil
\* the read dereferences a nil pointer and panics.
Stop ==
    /\ stopPc = "idle"
    /\ IF cmd = "nil"
       THEN /\ stopPc' = "panicked"
            /\ faulted' = TRUE
            /\ UNCHANGED stopRet
       ELSE IF cmdProcess = "nil"
       THEN /\ stopPc' = "returned"
            /\ stopRet' = "nil"
            /\ UNCHANGED faulted
       ELSE /\ stopPc' = "signal"
            /\ UNCHANGED << stopRet, faulted >>
    /\ UNCHANGED << co, second, ghostV, cfgV, childV, waitV, bridgeV, Executable, cmd, cmdProcess,
                    wg, retval, startRet, stopPath, bgPc, deferIdx, runErr,
                    sinceSignal, sigCalls, sigDelivered, kills, killErr,
                    sigErr >>

\* d.cmd.Process.Signal(syscall.SIGTERM) and the test of its error.
StopSignal ==
    /\ stopPc = "signal"
    /\ sigCalls' = sigCalls + 1
    /\ \E err \in SignalOutcomes :
          /\ sigErr' = err
          /\ sigDelivered' = (err = "nil" /\ child = "running")
          /\ IF (IF variant = "pkg" THEN SurfacesSignalErrPkg(err)
                                    ELSE SurfacesSignalErrSnap(err))
             THEN /\ stopPc' = "returned"
                  /\ stopRet' = "SignalError"
                  /\ UNCHANGED sinceSignal
             ELSE /\ stopPc' = "wait"
                  /\ sinceSignal' = (IF err = "nil" THEN 0 ELSE sinceSignal)
                  /\ UNCHANGED stopRet
    /\ UNCHANGED << co, second, ghostV, cfgV, childV, waitV, bridgeV, Executable, cmd, cmdProcess,
                    wg, retval, startRet, stopPath, faulted, bgPc, deferIdx,
                    runErr, kills, killErr >>

\* waitForProcessTermination up to its select: the channel exit is made, the
\* goroutine that waits on d.wg is started, the timer is created.
WaitBegin ==
    /\ stopPc = "wait"
    /\ exitCh' = "open"
    /\ timerLeft' = TimerDuration
    /\ timers' = timers + 1
    /\ stopPc' = "select"
    /\ UNCHANGED << co, second, ghostV, cfgV, childV, bridgeV, Executable, cmd, cmdProcess, wg,
                    retval, startRet, stopRet, stopPath, faulted, bgPc,
                    deferIdx, runErr, sinceSignal, sigCalls, sigDelivered,
                    kills, killErr,
                    sigErr >>

\* Mutant of WgWaitReturns: the wait does not wait for the counter.
WgWaitReturnsAtOnce == TRUE

\* d.wg.Wait() returns once the counter of d.wg is zero.
WgWaitReturns == wg = 0

\* The goroutine of waitForProcessTermination: d.wg.Wait() returns, close(exit).
WaiterClose ==
    /\ exitCh = "open"
    /\ WgWaitReturns
    /\ exitCh' = "closed"
    /\ UNCHANGED << co, second, ghostV, cfgV, childV, bridgeV, Executable, cmd, cmdProcess, wg,
                    retval, startRet, stopPc, stopRet, stopPath, faulted, bgPc,
                    deferIdx, runErr, timerLeft, timers, sinceSignal, sigCalls,
                    sigDelivered, kills, killErr,
                    sigErr >>

\* select, case <-exit: return d.retval
SelectExit ==
    /\ stopPc = "select"
    /\ exitCh = "closed"
    /\ stopPath' = "exit"
    /\ stopRet' = ExitCaseResult
    /\ stopPc' = "returned"
    /\ retvalReads' = retvalReads + 1
    /\ UNCHANGED retvalWrites
    /\ UNCHANGED << co, second, cfgV, childV, waitV, bridgeV, Executable, cmd, cmdProcess,
                    wg, retval, startRet, faulted, bgPc, deferIdx, runErr,
                    sinceSignal, sigCalls, sigDelivered, kills, killErr,
                    sigErr >>

\* select, case <-time.After(d.ExitTimeout).  With both channels ready the
\* select takes either case.
SelectTimer ==
    /\ stopPc = "select"
    /\ TimerExpired
    /\ stopPath' = "timer"
    /\ stopPc' = "kill"
    /\ UNCHANGED << co, second, ghostV, cfgV, childV, waitV, bridgeV, Executable, cmd, cmdProcess,
                    wg, retval, startRet, stopRet, faulted, bgPc, deferIdx,
                    runErr, sinceSignal, sigCalls, sigDelivered, kills,
                    killErr,
                    sigErr >>

\* The body of the timer case: Kill if the process handle is set, then return.
\* A kill that reaches a running child ends it.
ForceKill ==
    /\ stopPc = "kill"
    /\ IF cmdProcess # "nil"
       THEN /\ kills' = kills + 1
            /\ killErr' = KillOutcome
            /\ IF child = "running"
               THEN /\ child' = "zombie"
                    /\ childResult' = "killed"
                    /\ exitCause' = "killed"
                    /\ exitAt' = sinceSignal
               ELSE UNCHANGED childV
            /\ stopRet' = (IF (IF variant = "pkg"
                               THEN SurfacesKillErrPkg(KillOutcome)
                               ELSE SurfacesKillErrSnap(KillOutcome))
                           THEN "KillError"
                           ELSE "ShutdownTimeoutError")
       ELSE /\ stopRet' = "ShutdownTimeoutError"
            /\ UNCHANGED << childV, kills, killErr,
                    sigErr >>
    /\ stopPc' = "returned"
    /\ UNCHANGED << co, second, ghostV, cfgV, waitV, bridgeV, Executable, cmd, cmdProcess, wg,
                    retval, startRet, stopPath, faulted, bgPc, deferIdx,
                    runErr, sinceSignal, sigCalls, sigDelivered, sigErr >>

-----------------------------------------------------------------------------
(* Time *)

\* Some goroutine of the supervisor can take a step now.
Runnable ==
    \/ bgPc \in {"run", "assign", "defer"}
    \/ bgPc = "wait" /\ child = "zombie"
    \/ exitCh = "open" /\ WgWaitReturns
    \/ stopPc \in {"signal", "wait", "kill"}
    \/ stopPc = "select" /\ (exitCh = "closed" \/ TimerExpired)

\* One unit of time passes while Stop is blocked in its select.
Tick ==
    /\ stopPc = "select"
    /\ timerLeft > 0
    /\ ~Runnable
    /\ timerLeft' = timerLeft - 1
    /\ sinceSignal' = (IF sinceSignal >= 0 THEN sinceSignal + 1 ELSE sinceSignal)
    /\ UNCHANGED << co, second, ghostV, cfgV, childV, bridgeV, Executable, cmd, cmdProcess, wg,
                    retval, startRet, stopPc, stopRet, stopPath, faulted, bgPc,
                    deferIdx, runErr, exitCh, timers, sigCalls, sigDelivered,
                    kills, killErr,
                    sigErr >>

-----------------------------------------------------------------------------
(* Specifications *)

BgStep   == BgStart \/ BgWait \/ BgAssign \/ BgHandleProcessExit \/ BgDone
StopStep == StopSignal \/ WaitBegin \/ SelectExit \/ SelectTimer \/ ForceKill

Next ==
    \/ Start
    \/ Stop
    \/ BgStart
    \/ ChildExit
    \/ BgWait
    \/ BgAssign
    \/ BgHandleProcessExit
    \/ BridgeReturn
    \/ BgDone
    \/ StopSignal
    \/ WaitBegin
    \/ WaiterClose
    \/ SelectExit
    \/ SelectTimer
    \/ ForceKill
    \/ Tick

Spec == Init /\ [][Next]_vars

\* The Go scheduler runs every runnable goroutine, and time passes.
FairSpec ==
    /\ Spec
    /\ WF_vars(BgStep)
    /\ WF_vars(StopStep)
    /\ WF_vars(WaiterClose)
    /\ WF_vars(Tick)

TypeOK ==
    /\ variant \in Variants
    /\ ExitTimeout \in 1..defaultExitTimeout
    /\ wg \in 0..1
    /\ timerLeft \in -1..ExitTimeout
    /\ sinceSignal \in -1..ExitTimeout
    /\ kills \in 0..1 /\ sigCalls \in 0..1 /\ timers \in 0..1

-----------------------------------------------------------------------------
(* Start called a second time on the same Daemon while the first background *)
(* task has not completed.  Start has no guard: it runs as the first call.  *)

\* State of the supervisor that the second launch leaves alone.
restV == << cfgV, waitV, child, childResult, exitCause, exitAt, startRet,
            stopPc, stopRet, stopPath, bgPc, deferIdx, runErr, sinceSignal,
            sigCalls, sigDelivered, kills, killErr, sigErr, faulted,
            retvalReads, co >>

\* The second Start, called after the first goroutine has entered
\* d.cmd.Run(): the executable is already resolved, d.cmd is overwritten
\* with a new exec.Cmd (whose Process is nil), wg.Add(1), go superviseProcess.
StartAgain ==
    /\ startRet = "nil"
    /\ second.startRet = "none"
    /\ wg > 0
    /\ bgPc \in {"wait", "assign", "defer", "bridge"}
    /\ cmd' = "set"
    /\ cmdProcess' = "nil"
    /\ wg' = wg + 1
    /\ second' = [second EXCEPT !.startRet = "nil", !.replaced = TRUE,
                                !.bgPc = "run"]
    /\ UNCHANGED << restV, bridgeV, Executable, retval, retvalWrites >>

\* d.cmd.Run() of the second goroutine, first half.
Bg2Start ==
    /\ second.bgPc = "run"
    /\ \E created \in BOOLEAN :
          IF created
          THEN /\ cmdProcess' = "set"
               /\ second' = [second EXCEPT !.child = "running", !.bgPc = "wait"]
          ELSE /\ second' = [second EXCEPT !.runErr = "StartError",
                                           !.bgPc = "assign"]
               /\ UNCHANGED cmdProcess
    /\ UNCHANGED << restV, bridgeV, Executable, cmd, wg, retval, retvalWrites >>

\* The second child exits on its own.
Child2Exit ==
    /\ second.child = "running"
    /\ \E r \in ExitResults :
          second' = [second EXCEPT !.child = "zombie", !.childResult = r]
    /\ UNCHANGED << restV, bridgeV, Executable, cmd, cmdProcess, wg, retval,
                    retvalWrites >>

\* d.cmd.Run() of the second goroutine, second half.
Bg2Wait ==
    /\ second.bgPc = "wait"
    /\ second.child = "zombie"
    /\ second' = [second EXCEPT !.child = "reaped", !.bgPc = "assign",
                                !.runErr = second.childResult]
    /\ UNCHANGED << restV, bridgeV, Executable, cmd, cmdProcess, wg, retval,
                    retvalWrites >>

\* d.retval = d.cmd.Run() in the second goroutine.
Bg2Assign ==
    /\ second.bgPc = "assign"
    /\ retval' = second.runErr
    /\ retvalWrites' = retvalWrites + 1
    /\ second' = [second EXCEPT !.bgPc = "defer"]
    /\ UNCHANGED << restV, bridgeV, Executable, cmd, cmdProcess, wg >>

\* Position of the second goroutine after its deferred statement i.
AfterDeferred2(i) == IF i < Len(Deferred) THEN "defer" ELSE "finished"

\* handleProcessExit called by the second goroutine.
Bg2HandleProcessExit ==
    /\ second.bgPc = "defer"
    /\ Deferred[second.deferIdx] = "handleProcessExit"
    /\ svcStops' = svcStops + SvcStopCalls(interactive)
    /\ selfSignals' = selfSignals + SelfSignalCalls(interactive)
    /\ second' = IF ~interactive
                 THEN [second EXCEPT !.bgPc = "bridge"]
                 ELSE [second EXCEPT !.bgPc = AfterDeferred2(second.deferIdx),
                                     !.deferIdx = @ + 1]
    /\ UNCHANGED << restV, Executable, cmd, cmdProcess, wg, retval,
                    retvalWrites >>

\* s.Stop() returns to the second goroutine.
Bridge2Return ==
    /\ second.bgPc = "bridge"
    /\ second' = [second EXCEPT !.bgPc = AfterDeferred2(second.deferIdx),
                                !.deferIdx = @ + 1]
    /\ UNCHANGED << restV, bridgeV, Executable, cmd, cmdProcess, wg, retval,
                    retvalWrites >>

\* d.wg.Done() in the second goroutine.
Bg2Done ==
    /\ second.bgPc = "defer"
    /\ Deferred[second.deferIdx] = "Done"
    /\ wg' = wg - 1
    /\ second' = [second EXCEPT !.bgPc = AfterDeferred2(second.deferIdx),
                                !.deferIdx = @ + 1]
    /\ UNCHANGED << restV, bridgeV, Executable, cmd, cmdProcess, retval,
                    retvalWrites >>

\* The supervisor with a resolved executable; Stop is not called.
RestartInit ==
    /\ Init
    /\ Executable = "path"
    /\ ExitTimeout = defaultExitTimeout

RestartNext ==
    \/ Start
    \/ BgStart
    \/ ChildExit
    \/ BgWait
    \/ BgAssign
    \/ BgHandleProcessExit
    \/ BridgeReturn
    \/ BgDone
    \/ StartAgain
    \/ Bg2Start
    \/ Child2Exit
    \/ Bg2Wait
    \/ Bg2Assign
    \/ Bg2HandleProcessExit
    \/ Bridge2Return
    \/ Bg2Done

RestartSpec == RestartInit /\ [][RestartNext]_vars

-----------------------------------------------------------------------------
(* The run command: RunE of NewRunCmd (snapshot "run1", src/unnamed/part_001) *)
(* and runWithSignals / handleShutdown (snapshot "run2",                     *)
(* src/unnamed/part_002).  f, the unit of work, runs on its own goroutine.   *)

\* Most termination signals delivered to the process in one invocation.
MaxTriggers == 2

\* signalBufferSize and shutdownTimeout (60 * time.Second, in ticks of one
\* second) of run2; the buffer of sigChan in run1.
signalBufferSize == 3
shutdownTimeout == 60
sigChanSize1 == 1

daemonV == << variant, ExitTimeout, Executable, interactive, cmd, cmdProcess,
              wg, retval, child, childResult, exitCause, exitAt, startRet,
              stopPc, stopRet, stopPath, bgPc, deferIdx, runErr, exitCh,
              timerLeft, timers, sinceSignal, sigCalls, sigDelivered, kills,
              killErr, sigErr, svcStops, selfSignals, faulted, retvalWrites,
              retvalReads, second >>

RunVariants == {"run1", "run2"}

\* The supervisor is not used while the run command is modelled.
RunInit ==
    /\ co \in {CoIdle(v) : v \in RunVariants}
    /\ second = SecondIdle
    /\ variant = "pkg"
    /\ ExitTimeout = defaultExitTimeout
    /\ Executable = ""
    /\ interactive = TRUE
    /\ cmd = "nil"
    /\ cmdProcess = "nil"
    /\ wg = 0
    /\ retval = "nil"
    /\ child = "none"
    /\ childResult = "none"
    /\ exitCause = "none"
    /\ exitAt = -1
    /\ startRet = "none"
    /\ stopPc = "idle"
    /\ stopRet = "none"
    /\ stopPath = "none"
    /\ bgPc = "idle"
    /\ deferIdx = 1
    /\ runErr = "none"
    /\ exitCh = "none"
    /\ timerLeft = -1
    /\ timers = 0
    /\ sinceSignal = -1
    /\ sigCalls = 0
    /\ sigDelivered = FALSE
    /\ kills = 0
    /\ killErr = "none"
    /\ sigErr = "none"
    /\ svcStops = 0
    /\ selfSignals = 0
    /\ faulted = FALSE
    /\ retvalWrites = 0
    /\ retvalReads = 0

\* Capacity of sigChan.
SigChanCap == IF co.variant = "run1" THEN sigChanSize1 ELSE signalBufferSize

\* Results f can return.
UnitResults == {"nil", "appErr"}

\* RunE / runWithSignals up to the select: context, sigChan, signal.Notify,
\* done, and the goroutine started with wg.Go.
Run1Start ==
    /\ co.variant = "run1"
    /\ co.pc = "idle"
    /\ co' = [co EXCEPT !.pc = "select", !.notify = TRUE, !.wg = 1,
                        !.unitPc = "running"]
    /\ UNCHANGED daemonV

Run2Start ==
    /\ co.variant = "run2"
    /\ co.pc = "idle"
    /\ co' = [co EXCEPT !.pc = "select", !.notify = TRUE, !.wg = 1,
                        !.unitPc = "running"]
    /\ UNCHANGED daemonV

\* The process receives SIGINT or SIGTERM: signal.Notify sends it to sigChan
\* without blocking and drops it when the buffer is full.
Trigger ==
    /\ co.notify
    /\ co.triggers < MaxTriggers
    /\ co' = [co EXCEPT !.triggers = @ + 1,
                        !.sigChan = IF @ < SigChanCap THEN @ + 1 ELSE @]
    /\ UNCHANGED daemonV

\* f returns: on its own, or because it honours the cancelled context.
UnitReturns ==
    /\ co.unitPc = "running"
    /\ \E r \in UnitResults :
          co' = [co EXCEPT !.unitPc = "returned", !.unitResult = r]
    /\ UNCHANGED daemonV

\* runErr = f(ctx, args): the assignment (err = ... in run1).
UnitAssign ==
    /\ co.unitPc = "returned"
    /\ co' = [co EXCEPT !.unitPc = "assigned", !.runErr = co.unitResult]
    /\ UNCHANGED daemonV

\* close(done): deferred in run2, the last statement in run1.
UnitCloseDone ==
    /\ co.unitPc = "assigned"
    /\ co' = [co EXCEPT !.unitPc = "closed", !.done = TRUE]
    /\ UNCHANGED daemonV

\* The function given to wg.Go has returned: the counter is decremented.
UnitWgDone ==
    /\ co.unitPc = "closed"
    /\ co' = [co EXCEPT !.unitPc = "done", !.wg = @ - 1]
    /\ UNCHANGED daemonV

\* ---- run1 ----

\* select, case <-done
Run1SelectDone ==
    /\ co.variant = "run1"
    /\ co.pc = "select"
    /\ co.done
    /\ co' = [co EXCEPT !.pc = "cancel", !.state = "CompletedNaturally"]
    /\ UNCHANGED daemonV

\* select, case <-sigChan
Run1SelectSig ==
    /\ co.variant = "run1"
    /\ co.pc = "select"
    /\ co.sigChan > 0
    /\ co' = [co EXCEPT !.pc = "cancel", !.state = "CancelRequested",
                        !.sigChan = @ - 1, !.consumed = @ + 1,
                        !.doneAtConsume = co.done]
    /\ UNCHANGED daemonV

\* cancel()
Run1Cancel ==
    /\ co.variant = "run1"
    /\ co.pc = "cancel"
    /\ co' = [co EXCEPT !.pc = "wgWait", !.cancels = @ + 1, !.sinceCancel = 0]
    /\ UNCHANGED daemonV

\* wg.Wait() returns; return err
Run1WgWait ==
    /\ co.variant = "run1"
    /\ co.pc = "wgWait"
    /\ co.wg = 0
    /\ co' = [co EXCEPT !.pc = "returned",
                        !.ret = co.runErr,
                        !.reads = @ + 1,
                        !.earlyReads = IF co.done THEN @ ELSE @ + 1,
                        !.state = IF @ = "CancelRequested"
                                  THEN "CompletedAfterCancel" ELSE @]
    /\ UNCHANGED daemonV

\* ---- run2 ----

\* What the done case of runWithSignals returns for runErr = e.
DoneCaseResult(e) == e

\* Mutants of ConsumesTrigger: sigChan is also received from while
\* handleShutdown waits; sigChan is received from at any time.
ConsumesTriggerInShutdown == co.pc \in {"select", "shutdownSelect"}
ConsumesTriggerAlways == co.pc # "idle"

\* Where runWithSignals receives from sigChan: in its select only.
ConsumesTrigger == co.pc = "select"

\* What handleShutdown returns when shutdownDone is closed, for its
\* parameter runErr = e.
ShutdownDoneResult(e) ==
    IF e # "nil" THEN "application error" ELSE "shutdown by signal"

\* Mutant of Run2Deferred: cancel() is not deferred.
Run2DeferredNoCancel(c) == [c EXCEPT !.notify = FALSE]

\* The deferred calls of runWithSignals: signal.Stop(sigChan) and cancel().
Run2Deferred(c) == [c EXCEPT !.notify = FALSE, !.cancels = @ + 1,
                             !.sinceCancel = IF @ < 0 THEN 0 ELSE @]

\* select, case <-done: return runErr
Run2SelectDone ==
    /\ co.variant = "run2"
    /\ co.pc = "select"
    /\ co.done
    /\ co' = Run2Deferred([co EXCEPT !.pc = "returned",
                                     !.ret = DoneCaseResult(co.runErr),
                                     !.reads = @ + 1,
                                     !.state = "CompletedNaturally"])
    /\ UNCHANGED daemonV

\* select, case sig := <-sigChan: the call handleShutdown(cancel, &wg, sig,
\* runErr) evaluates runErr here, while f may still be running.
Run2SelectSig ==
    /\ co.variant = "run2"
    /\ ConsumesTrigger
    /\ co.sigChan > 0
    /\ co' = [co EXCEPT !.pc = "handleShutdown", !.state = "CancelRequested",
                        !.sigChan = @ - 1, !.consumed = @ + 1,
                        !.argRunErr = co.runErr,
                        !.doneAtConsume = co.done,
                        !.reads = @ + 1,
                        !.earlyReads = IF co.done THEN @ ELSE @ + 1]
    /\ UNCHANGED daemonV

\* handleShutdown up to its select: cancel(), shutdownDone and its goroutine,
\* the timer.
HandleShutdownBegin ==
    /\ co.variant = "run2"
    /\ co.pc = "handleShutdown"
    /\ co' = [co EXCEPT !.pc = "shutdownSelect", !.cancels = @ + 1,
                        !.sinceCancel = 0, !.shutdownDone = "open",
                        !.timerLeft = shutdownTimeout, !.timers = @ + 1]
    /\ UNCHANGED daemonV

\* The goroutine of handleShutdown: wg.Wait() returns, close(shutdownDone).
ShutdownWaiter ==
    /\ co.shutdownDone = "open"
    /\ co.wg = 0
    /\ co' = [co EXCEPT !.shutdownDone = "closed"]
    /\ UNCHANGED daemonV

\* select of handleShutdown, case <-shutdownDone
ShutdownSelectDone ==
    /\ co.variant = "run2"
    /\ co.pc = "shutdownSelect"
    /\ co.shutdownDone = "closed"
    /\ co' = Run2Deferred([co EXCEPT !.pc = "returned",
                                     !.ret = ShutdownDoneResult(co.argRunErr),
                                     !.state = "CompletedAfterCancel"])
    /\ UNCHANGED daemonV

\* select of handleShutdown, case <-time.After(shutdownTimeout)
ShutdownSelectTimer ==
    /\ co.variant = "run2"
    /\ co.pc = "shutdownSelect"
    /\ co.timerLeft = 0
    /\ co' = Run2Deferred([co EXCEPT !.pc = "returned",
                                     !.ret = "shutdown timeout exceeded",
                                     !.state = "TimedOut"])
    /\ UNCHANGED daemonV

\* ---- time ----

\* Some goroutine of the run command can take a step now.
CoRunnable ==
    \/ co.unitPc \in {"returned", "assigned", "closed"}
    \/ co.pc \in {"cancel", "handleShutdown"}
    \/ co.pc = "select" /\ (co.done \/ co.sigChan > 0)
    \/ co.pc = "wgWait" /\ co.wg = 0
    \/ co.shutdownDone = "open" /\ co.wg = 0
    \/ co.pc = "shutdownSelect" /\ (co.shutdownDone = "closed" \/ co.timerLeft = 0)

\* One unit of time passes while the run command waits for f after the
\* first cancel(); time is not counted beyond the shutdown deadline.
CoTick ==
    /\ co.pc \in {"wgWait", "shutdownSelect"}
    /\ co.sinceCancel <= shutdownTimeout
    /\ ~CoRunnable
    /\ co' = [co EXCEPT !.sinceCancel = @ + 1,
                        !.timerLeft = IF @ > 0 THEN @ - 1 ELSE @]
    /\ UNCHANGED daemonV

RunNext ==
    \/ Run1Start
    \/ Run2Start
    \/ Trigger
    \/ UnitReturns
    \/ UnitAssign
    \/ UnitCloseDone
    \/ UnitWgDone
    \/ Run1SelectDone
    \/ Run1SelectSig
    \/ Run1Cancel
    \/ Run1WgWait
    \/ Run2SelectDone
    \/ Run2SelectSig
    \/ HandleShutdownBegin
    \/ ShutdownWaiter
    \/ ShutdownSelectDone
    \/ ShutdownSelectTimer
    \/ CoTick

RunSpec == RunInit /\ [][RunNext]_vars

\* The Go scheduler runs every runnable goroutine, and time passes.
RunStep ==
    \/ UnitAssign \/ UnitCloseDone \/ UnitWgDone
    \/ Run1SelectDone \/ Run1SelectSig \/ Run1Cancel \/ Run1WgWait
    \/ Run2SelectDone \/ Run2SelectSig \/ HandleShutdownBegin
    \/ ShutdownWaiter \/ ShutdownSelectDone \/ ShutdownSelectTimer

FairRunSpec == RunSpec /\ WF_vars(RunStep) /\ WF_vars(CoTick)

-----------------------------------------------------------------------------
(* Properties *)

\* Calls of the host-lifecycle bridge made by handleProcessExit.
Notifications == svcStops + selfSignals

\* Stop sent the termination signal and the child then exited by itself
\* before the grace period was over.
ExitedWithinGrace ==
    /\ sinceSignal >= 0
    /\ exitCause \in {"natural", "sigterm"}
    /\ exitAt >= 0
    /\ exitAt < ExitTimeout

\* C1: if Stop sent the termination signal and the child exited within the
\* grace period of that signal, Stop returns exactly the child's exit result
\* (never a timeout error) and no kill is issued.
C1_StopReturnsChildResult ==
    (stopPc = "returned" /\ ExitedWithinGrace)
        => (stopRet = childResult /\ kills = 0)

C3_TimeoutWhateverKillDid ==
    (stopPc = "returned" /\ stopPath = "timer")
        => stopRet = "ShutdownTimeoutError"

\* C4: Stop on a supervisor on which Start was never called returns no
\* error, sends no signal, starts no timer, issues no kill, does not fault.
C4_StopWithoutStartIsNoOp ==
    (startRet = "none" /\ stopPc # "idle")
        => /\ stopPc = "returned"
           /\ stopRet = "nil"
           /\ ~faulted
           /\ sigCalls = 0
           /\ timers = 0
           /\ kills = 0

\* C5: after a successful Start, whenever Stop has returned the child is not
\* left running without ever having been signalled.
C5_NeverLeftRunningUnsignalled ==
    (startRet = "nil" /\ stopPc = "returned")
        => ~(child = "running" /\ sigCalls = 0)

\* C6: when process creation fails, Start has returned SetupError.
C6_CreationFailureIsSetupError ==
    runErr = "StartError" => startRet = "SetupError"

\* C7: if Signal fails for a reason other than the process being already
\* gone, Stop returns SignalError at once: no waiter, no timer, no kill.
C7_SignalErrorNoWait ==
    (sigErr = "EPERM")
        => /\ stopPc = "returned"
           /\ stopRet = "SignalError"
           /\ exitCh = "none"
           /\ timers = 0
           /\ timerLeft = -1
           /\ kills = 0

\* C7 witness: Signal failed on a live child and Stop returned SignalError.
C7_Witness ==
    /\ sigErr = "EPERM"
    /\ child = "running"
    /\ stopPc = "returned"
    /\ stopRet = "SignalError"

\* C8: if Signal reports the process as already gone, Stop does not return
\* SignalError: it waits and returns the child's recorded exit result
\* without a kill.
C8_AlreadyGoneReturnsResult ==
    (sigErr = "ErrProcessDone" /\ stopPc = "returned")
        => /\ stopRet # "SignalError"
           /\ stopPath = "exit"
           /\ stopRet = childResult
           /\ kills = 0

\* C9 (as claimed): the bridge is notified at most once, and never when the
\* child's exit was the direct result of Stop within the grace period.
C9_NoNotifyOnGracefulStop ==
    /\ Notifications <= 1
    /\ (exitCause = "sigterm" /\ ExitedWithinGrace) => Notifications = 0

\* C9 (amended): the bridge is notified at most once per child, only after
\* cmd.Run has returned, and once the background task has finished it has
\* been notified exactly once, also when the exit was the direct result of
\* Stop within the grace period.
C9_NotifiedOncePerExit ==
    /\ Notifications <= 1
    /\ Notifications = 1 => (child = "reaped" \/ runErr = "StartError")
    /\ bgPc = "finished" => Notifications = 1

\* C9 witness: an exit caused by Stop within the grace period was notified.
C9_Witness ==
    /\ exitCause = "sigterm"
    /\ ExitedWithinGrace
    /\ stopPc = "returned"
    /\ stopPath = "exit"
    /\ bgPc = "finished"
    /\ Notifications = 1

\* C10: every exit of the child not caused by Stop eventually leads to
\* exactly one bridge notification, also with a Stop call in flight.
C10_UnexpectedExitNotifiedOnce ==
    /\ [](Notifications <= 1)
    /\ (exitCause = "natural") ~> (Notifications = 1)

\* C10 witness: the child exited on its own while Stop was waiting, and the
\* bridge has been notified once.
C10_Witness ==
    /\ exitCause = "natural"
    /\ exitAt >= 0
    /\ stopPc \in {"select", "returned"}
    /\ Notifications = 1

\* C11: the bridge is invoked only after the background task has recorded
\* the exit result and the completion signal has fired, so that the result
\* is readable at the moment the host is notified.
C11_NotifiedAfterResultReadable ==
    Notifications >= 1 => (retvalWrites = 1 /\ wg = 0)

\* C18: every Stop invocation terminates with exactly one outcome: with the
\* scheduler and the timer fair, a Stop that was called returns a result, no
\* more than the grace period passes after the signal, no Stop ends without
\* an outcome, and the result of a returned Stop does not change.
C18_StopTerminatesOnce ==
    /\ [](stopPc # "panicked")
    /\ (stopPc # "idle") ~> (stopPc = "returned" /\ stopRet # "none")
    /\ [](sinceSignal <= ExitTimeout)
    /\ [][stopPc = "returned" =>
              (stopPc' = "returned" /\ stopRet' = stopRet)]_vars

\* C19: within one Stop call the termination signal is sent exactly once
\* and before the bounded wait begins: a Stop that waits has made its one
\* Signal call, the timer is created after it and is the only one, and while
\* Stop waits the timer has run exactly as long as the time since the signal
\* (it is never reset).
C19_OneSignalOneTimer ==
    /\ sigCalls <= 1
    /\ timers <= 1
    /\ timers >= 1 => sigCalls = 1
    /\ stopPc \in {"wait", "select", "kill"} => sigCalls = 1
    /\ stopPc \in {"select", "kill"} => timers = 1
    /\ (stopPc = "select" /\ sinceSignal >= 0)
           => sinceSignal + timerLeft = ExitTimeout

C19_Witness ==
    /\ stopPc = "select"
    /\ sigDelivered /\ child = "running"
    /\ sinceSignal > 0 /\ timerLeft > 0

\* C20: d.retval is written exactly once, by the background task, before
\* wg.Done(); Stop reads it only after the completion signal has fired, at
\* most once, and on the timer path it returns without reading it.
C20_RetvalWriteOnceReadAfter ==
    /\ retvalWrites <= 1
    /\ retvalWrites = 1 => bgPc \in {"defer", "bridge", "finished"}
    /\ (startRet = "nil" /\ wg = 0) => retvalWrites = 1
    /\ retvalReads <= 1
    /\ retvalReads = 1 => (retvalWrites = 1 /\ wg = 0 /\ stopPath = "exit")
    /\ stopPath = "timer" => retvalReads = 0

C20_Witness ==
    /\ stopPc = "returned" /\ stopPath = "exit"
    /\ retvalReads = 1 /\ retvalWrites = 1
    /\ exitCause = "sigterm"

\* The child has completed: it exited or was killed, or its launch failed.
ChildCompleted == child \in {"zombie", "reaped"} \/ runErr = "StartError"

\* C21: the supervising task notifies the bridge exactly once on every
\* completion of the child, whatever the cause (natural exit, crash, failed
\* launch, exit on Stop's signal, kill after the grace period): never more
\* than once, and every completion leads to the notification.
C21_NotifiedOnEveryCompletion ==
    /\ [](Notifications <= 1)
    /\ [](Notifications = 1 => ChildCompleted)
    /\ ChildCompleted ~> (Notifications = 1)

C21_Witness ==
    /\ exitCause = "killed"
    /\ stopPc = "returned"
    /\ bgPc = "finished"
    /\ Notifications = 1

\* C22: on a completion the bridge takes exactly one of two actions, chosen
\* by kardianos.Interactive(): not interactive, it calls s.Stop() and does not
\* signal its own process; interactive, it signals its own process and does
\* not call s.Stop().
C22_OneActionByInteractive ==
    /\ ~interactive => selfSignals = 0
    /\ interactive => svcStops = 0
    /\ bgPc \in {"bridge", "finished"} =>
           IF interactive THEN selfSignals = 1 ELSE svcStops = 1

C22_Witness ==
    /\ interactive
    /\ bgPc = "finished"
    /\ selfSignals = 1 /\ svcStops = 0

\* C23: a Stop in its bounded wait does not depend on the bridge call
\* returning: while s.Stop() is outstanding the completion signal has already
\* fired, and a Stop whose child exited within the grace period returns by
\* the exit case with the child's result.
C23_StopIndependentOfBridge ==
    /\ bgPc = "bridge" => wg = 0
    /\ (stopPc = "returned" /\ stopPath # "none" /\ ExitedWithinGrace)
           => (stopPath = "exit" /\ stopRet = childResult)

-----------------------------------------------------------------------------
(* Properties of the run command *)

\* The run command has returned to its caller.
CoReturned == co.pc = "returned"

\* C12: when the unit of work completes on its own (done is closed) before
\* any termination trigger is consumed, the run command returns the unit's
\* result unchanged (nil stays nil, an error is that same error) and ends in
\* CompletedNaturally (the state is required where the completion branch of
\* the select was taken; the returned value in every such run).
C12_NaturalCompletionUnchanged ==
    /\ (CoReturned /\ (co.consumed = 0 \/ co.doneAtConsume))
           => co.ret = co.unitResult
    /\ (CoReturned /\ co.consumed = 0) => co.state = "CompletedNaturally"

\* The error returned by the run command surfaces the unit's error e.
SurfacesUnitError(r) == r \in {"appErr", "application error"}

\* C13: when a trigger is consumed before the unit of work has completed and
\* the unit stops within the shutdown deadline, the run command returns the
\* unit's own result: the unit's error if it returned one, and the
\* "shutdown by signal" indication only if it returned none.
C13_CancelledUnitResultSurfaced ==
    (CoReturned /\ co.state = "CompletedAfterCancel" /\ ~co.doneAtConsume)
        => /\ co.unitResult = "appErr" => SurfacesUnitError(co.ret)
           /\ co.ret = "shutdown by signal" => co.unitResult = "nil"

\* C14: when a trigger was consumed and the unit of work ignores the
\* cancellation, the run command has returned once the shutdown deadline
\* has elapsed after cancel().
C14_ReturnsAtShutdownDeadline ==
    (co.state # "Running" /\ co.consumed > 0 /\ co.sinceCancel > shutdownTimeout)
        => CoReturned

\* C15: only the first trigger matters: at most one trigger is consumed, at
\* most one timer is created and it runs from cancel() without being
\* restarted or shortened, cancel() is called again only by the deferred call
\* at return, and the arrival of a trigger changes neither the cancellation,
\* nor the timer, nor the outcome.
C15_Inv ==
    /\ co.consumed <= 1
    /\ co.timers <= 1
    /\ co.pc = "shutdownSelect" => co.timerLeft + co.sinceCancel = shutdownTimeout
    /\ ~CoReturned => co.cancels <= 1
    /\ co.cancels <= 2

C15_OnlyFirstTriggerMatters ==
    /\ []C15_Inv
    /\ [][co'.triggers # co.triggers =>
            /\ co'.cancels = co.cancels
            /\ co'.timerLeft = co.timerLeft
            /\ co'.sinceCancel = co.sinceCancel
            /\ co'.state = co.state
            /\ co'.ret = co.ret]_vars

C15_Witness ==
    /\ co.variant = "run2"
    /\ co.pc = "shutdownSelect"
    /\ co.triggers = 2 /\ co.consumed = 1 /\ co.sigChan = 1
    /\ co.sinceCancel > 0

\* C16: the state of an invocation moves only along Running ->
\* CompletedNaturally, Running -> CancelRequested, CancelRequested ->
\* CompletedAfterCancel and CancelRequested -> TimedOut; the run command
\* reports one of the three outcomes, and after it has returned neither the
\* state nor the returned value changes.
CoTransitions ==
    { <<"Running", "CompletedNaturally">>, <<"Running", "CancelRequested">>,
      <<"CancelRequested", "CompletedAfterCancel">>,
      <<"CancelRequested", "TimedOut">> }

CoOutcomes == {"CompletedNaturally", "CompletedAfterCancel", "TimedOut"}

C16_StateMachine ==
    /\ [](CoReturned => co.state \in CoOutcomes)
    /\ [][/\ co'.state # co.state => <<co.state, co'.state>> \in CoTransitions
          /\ CoReturned => (co'.pc = co.pc /\ co'.state = co.state
                            /\ co'.ret = co.ret)]_vars

C16_Witness ==
    /\ CoReturned /\ co.state = "TimedOut"
    /\ co.unitPc = "done"
    /\ co.sigChan > 0


-----------------------------------------------------------------------------
(* Properties of a second Start *)

\* C17: at most one supervised child is active per Daemon: a second Start
\* made before the first background task has completed is rejected, launches
\* no second child and does not replace the process handle Stop acts on.
C17_SecondStartRejected ==
    /\ second.startRet # "nil"
    /\ ~second.replaced
    /\ second.child = "none"
    /\ ~(child = "running" /\ second.child = "running")


\* The value of runErr (err) that the run command read on the trigger path.
TriggerPathValue == IF co.variant = "run2" THEN co.argRunErr ELSE co.ret

\* C24: the run command never reads the result variable before done has
\* fired; on the trigger path the value it reports is the one the goroutine
\* of f wrote, read after completion.
C24_ResultReadAfterDone ==
    /\ co.earlyReads = 0
    /\ (CoReturned /\ co.state = "CompletedAfterCancel")
           => TriggerPathValue = co.unitResult

\* C25: cancel() is called before the wait for the shutdown deadline begins
\* and on every return path, so a returned run command has cancelled its
\* context; the timer is created only after a trigger was received, once,
\* and the deadline wait has exactly that one timer.
C25_CancelOnEveryPath ==
    /\ co.pc \in {"wgWait", "shutdownSelect"} => (co.cancels >= 1 /\ co.sinceCancel >= 0)
    /\ CoReturned => co.cancels >= 1
    /\ co.timers <= 1
    /\ co.timers = 1 => co.consumed = 1
    /\ co.pc = "shutdownSelect" => co.timers = 1
    /\ co.state = "CompletedNaturally" => co.timers = 0

C25_Witness ==
    /\ co.variant = "run2"
    /\ CoReturned /\ co.state = "CompletedNaturally"
    /\ co.cancels = 1 /\ co.timers = 0
    /\ co.triggers > 0


====
